---- MODULE Spec2Model ----
(***************************************************************************)
(* Model of two components of the repository:                              *)
(*   - kubernetes-demo-app/app/app.py: the Flask service with its          *)
(*     liveness (/healthz) and readiness (/readiness) probes and the       *)
(*     termination-signal handler;                                         *)
(*   - lambda-cost-notifier/src/lambda_function.py: the scheduled cost     *)
(*     notifier with its dedup table, its two retry loops and the handler. *)
(* The clock of the service has a resolution of one second.                *)
(***************************************************************************)
EXTENDS Integers, Sequences, FiniteSets, TLC

\* ------------------------------------------------------------------ bounds
MaxTime == 8          \* the service clock takes the values 0..MaxTime
MaxStart == 2         \* the process starts at a clock value in 0..MaxStart
MaxRequests == 1      \* requests in flight at the same time
MaxDay == 2           \* the notifier's UTC calendar day takes the values 1..MaxDay
MaxInvocations == 2   \* invocations of lambda_handler in one behaviour
MaxGroups == 11       \* service groups in one Cost Explorer result

\* ------------------------------------------------- constants of the service
MIN_UPTIME_SECONDS == 5

\* ------------------------------------------------ constants of the notifier
max_retries == 3
TopN == 10            \* format_email, line 127: [:10]
OneCent == 10         \* format_email, line 139: 0.01, in thousandths of a dollar

\* the worker threads of the server
Requests == 1..MaxRequests

VARIABLES
    app_ready,      \* app.py: global app_ready
    startup_time,   \* app.py: global startup_time
    now,            \* what time.time() returns at this instant
    req             \* the requests in flight, one record per worker thread

VARIABLES
    today,          \* datetime.utcnow().date(), as a day number
    table,          \* the DynamoDB tracking table: report_date -> item
    pc,             \* position of the running invocation of lambda_handler
    already_sent,   \* lambda_handler, line 244: what already_sent_today() returned
    attempt,        \* loop variable of the retry loop that is running
    yesterday,      \* get_cost_data: local yesterday (the day queried)
    cost_data,      \* lambda_handler: local cost_data
    email_content,  \* lambda_handler: local email_content
    email_result,   \* lambda_handler: local email_result
    result,         \* what the invocation returned or raised
    log,            \* the external calls and sleeps of this invocation, in order
    invocations,    \* invocations started so far
    ses_seq,        \* message ids SES has handed out
    delivered,      \* report date -> emails SES accepted for that date
    store_failures  \* failed get_item and put_item calls so far

VARIABLES
    fmt_in,         \* format_email: its argument cost_data
    fmt_out         \* format_email: what it returned

svcVars == <<app_ready, startup_time, now, req>>
fmtVars == <<fmt_in, fmt_out>>
jobVars == <<today, table, pc, already_sent, attempt, yesterday, cost_data, email_content,
             email_result, result, log, invocations, ses_seq, delivered,
             store_failures>>
vars == <<app_ready, startup_time, now, req,
          today, table, pc, already_sent, attempt, yesterday, cost_data, email_content,
          email_result, result, log, invocations, ses_seq, delivered,
          store_failures, fmt_in, fmt_out>>

\* ---------------------------------------------------------------- responses
NoResp == [code |-> 0, status |-> "none", reason |-> "", values |-> {}]

\* a worker thread: the endpoint it serves, its position in the handler, the
\* handler's locals (uptime_seconds, the value of app_ready it read) and the
\* response it returned; signalled records whether the request began after
\* signal_handler had run
Idle == [ep |-> "none", pc |-> "idle", uptime |-> 0, ready_seen |-> TRUE,
         signalled |-> FALSE, resp |-> NoResp]

\* jsonify({...}), code: the status code, the status field, the text of the
\* reason/error field and the numbers the body carries
Response(code, status, reason, values) ==
    [code |-> code, status |-> status, reason |-> reason, values |-> values]

\* a handler that flips the flag instead of clearing it
signal_handler_toggle ==
    /\ app_ready' = ~app_ready
    /\ UNCHANGED <<startup_time, now, req, jobVars, fmtVars>>

\* ------------------------------------------------------------ signal_handler
signal_handler ==
    /\ app_ready' = FALSE
    /\ UNCHANGED <<startup_time, now, req, jobVars, fmtVars>>

\* -------------------------------------------------------------------- clock
\* time.time() is the wall clock: it advances, and it can be set back
Tick ==
    /\ now < MaxTime
    /\ now' = now + 1
    /\ UNCHANGED <<app_ready, startup_time, req, jobVars, fmtVars>>

ClockSetBack ==
    /\ now > 0
    /\ now' = now - 1
    /\ UNCHANGED <<app_ready, startup_time, req, jobVars, fmtVars>>

\* ----------------------------------------------------------- before_request
\* a request for endpoint ep arrives and a worker starts handling it;
\* signalled remembers whether signal_handler had already run by then
before_request(r, ep) ==
    /\ req[r].pc = "idle"
    /\ req' = [req EXCEPT ![r] = [ep |-> ep, pc |-> "start", uptime |-> 0,
                                  ready_seen |-> TRUE,
                                  signalled |-> ~app_ready, resp |-> NoResp]]
    /\ UNCHANGED <<app_ready, startup_time, now, jobVars, fmtVars>>

\* -------------------------------------------------------------- health_check
\* lines 111-116: read the clock, fail on a negative uptime
health_check_clock(r) ==
    /\ req[r].ep = "healthz" /\ req[r].pc = "start"
    /\ LET uptime_seconds == now - startup_time IN
       req' = [req EXCEPT ![r] =
                 IF uptime_seconds < 0
                 THEN [@ EXCEPT !.pc = "done", !.uptime = uptime_seconds,
                          !.resp = Response(500, "unhealthy",
                                            "Invalid uptime calculation", {})]
                 ELSE [@ EXCEPT !.pc = "flag", !.uptime = uptime_seconds]]
    /\ UNCHANGED <<app_ready, startup_time, now, jobVars, fmtVars>>

\* health_check without lines 118-120: the flag is read and ignored
health_check_flag_ignored(r) ==
    /\ req[r].ep = "healthz" /\ req[r].pc = "flag"
    /\ req' = [req EXCEPT ![r] =
                 [@ EXCEPT !.pc = "done", !.ready_seen = app_ready,
                    !.resp = Response(200, "healthy", "",
                               {<<"uptime_seconds", req[r].uptime>>})]]
    /\ UNCHANGED <<app_ready, startup_time, now, jobVars, fmtVars>>

\* lines 119-133: read app_ready, fail when the shutdown signal was received
health_check_flag(r) ==
    /\ req[r].ep = "healthz" /\ req[r].pc = "flag"
    /\ req' = [req EXCEPT ![r] =
                 IF ~app_ready
                 THEN [@ EXCEPT !.pc = "done", !.ready_seen = FALSE,
                          !.resp = Response(500, "unhealthy",
                                            "Application shutting down", {})]
                 ELSE [@ EXCEPT !.pc = "done", !.ready_seen = TRUE,
                          !.resp = Response(200, "healthy", "",
                                     {<<"uptime_seconds", req[r].uptime>>})]]
    /\ UNCHANGED <<app_ready, startup_time, now, jobVars, fmtVars>>

\* ----------------------------------------------------------- readiness_check
\* readiness_check without lines 152-159: the flag is read and ignored
readiness_check_flag_skipped(r) ==
    /\ req[r].ep = "readiness" /\ req[r].pc = "start"
    /\ req' = [req EXCEPT ![r] = [@ EXCEPT !.pc = "clock",
                                     !.ready_seen = app_ready]]
    /\ UNCHANGED <<app_ready, startup_time, now, jobVars, fmtVars>>

\* lines 153-159: read app_ready first
readiness_check_flag(r) ==
    /\ req[r].ep = "readiness" /\ req[r].pc = "start"
    /\ req' = [req EXCEPT ![r] =
                 IF ~app_ready
                 THEN [@ EXCEPT !.pc = "done", !.ready_seen = FALSE,
                          !.resp = Response(503, "not_ready",
                                     "Application not ready to serve traffic", {})]
                 ELSE [@ EXCEPT !.pc = "clock", !.ready_seen = TRUE]]
    /\ UNCHANGED <<app_ready, startup_time, now, jobVars, fmtVars>>

\* readiness_check with a reason that leaves out the required uptime
readiness_check_clock_unquoted(r) ==
    /\ req[r].ep = "readiness" /\ req[r].pc = "clock"
    /\ LET uptime_seconds == now - startup_time IN
       req' = [req EXCEPT ![r] =
                 IF uptime_seconds < MIN_UPTIME_SECONDS
                 THEN [@ EXCEPT !.pc = "done", !.uptime = uptime_seconds,
                          !.resp = Response(503, "not_ready",
                                     "Minimum uptime not reached",
                                     {<<"observed", uptime_seconds>>})]
                 ELSE [@ EXCEPT !.pc = "done", !.uptime = uptime_seconds,
                          !.resp = Response(200, "ready", "",
                                     {<<"uptime_seconds", uptime_seconds>>})]]
    /\ UNCHANGED <<app_ready, startup_time, now, jobVars, fmtVars>>

\* readiness_check with <= for < in line 165
readiness_check_clock_strict(r) ==
    /\ req[r].ep = "readiness" /\ req[r].pc = "clock"
    /\ LET uptime_seconds == now - startup_time IN
       req' = [req EXCEPT ![r] =
                 IF uptime_seconds <= MIN_UPTIME_SECONDS
                 THEN [@ EXCEPT !.pc = "done", !.uptime = uptime_seconds,
                          !.resp = Response(503, "not_ready",
                                     "Minimum uptime not reached",
                                     {<<"observed", uptime_seconds>>,
                                      <<"required", MIN_UPTIME_SECONDS>>})]
                 ELSE [@ EXCEPT !.pc = "done", !.uptime = uptime_seconds,
                          !.resp = Response(200, "ready", "",
                                     {<<"uptime_seconds", uptime_seconds>>})]]
    /\ UNCHANGED <<app_ready, startup_time, now, jobVars, fmtVars>>

\* readiness_check reading app_ready a second time before it answers
readiness_check_clock_rereads_flag(r) ==
    /\ req[r].ep = "readiness" /\ req[r].pc = "clock"
    /\ LET uptime_seconds == now - startup_time IN
       req' = [req EXCEPT ![r] =
                 IF ~app_ready
                 THEN [@ EXCEPT !.pc = "done", !.uptime = uptime_seconds,
                          !.resp = Response(503, "not_ready",
                                     "Application not ready to serve traffic", {})]
                 ELSE IF uptime_seconds < MIN_UPTIME_SECONDS
                 THEN [@ EXCEPT !.pc = "done", !.uptime = uptime_seconds,
                          !.resp = Response(503, "not_ready",
                                     "Minimum uptime not reached",
                                     {<<"observed", uptime_seconds>>,
                                      <<"required", MIN_UPTIME_SECONDS>>})]
                 ELSE [@ EXCEPT !.pc = "done", !.uptime = uptime_seconds,
                          !.resp = Response(200, "ready", "",
                                     {<<"uptime_seconds", uptime_seconds>>})]]
    /\ UNCHANGED <<app_ready, startup_time, now, jobVars, fmtVars>>

\* lines 161-183: read the clock, require the minimum uptime
readiness_check_clock(r) ==
    /\ req[r].ep = "readiness" /\ req[r].pc = "clock"
    /\ LET uptime_seconds == now - startup_time IN
       req' = [req EXCEPT ![r] =
                 IF uptime_seconds < MIN_UPTIME_SECONDS
                 THEN [@ EXCEPT !.pc = "done", !.uptime = uptime_seconds,
                          !.resp = Response(503, "not_ready",
                                     "Minimum uptime not reached",
                                     {<<"observed", uptime_seconds>>,
                                      <<"required", MIN_UPTIME_SECONDS>>})]
                 ELSE [@ EXCEPT !.pc = "done", !.uptime = uptime_seconds,
                          !.resp = Response(200, "ready", "",
                                     {<<"uptime_seconds", uptime_seconds>>})]]
    /\ UNCHANGED <<app_ready, startup_time, now, jobVars, fmtVars>>

\* ------------------------------------------------------------------ metrics
\* lines 200-206: read the clock and sample the host through psutil, which
\* answers or raises; the except branch of lines 264-273 answers 500
metrics_sample(r, o) ==
    /\ req[r].ep = "metrics" /\ req[r].pc = "start"
    /\ LET uptime_seconds == now - startup_time IN
       req' = [req EXCEPT ![r] =
                 IF o = "ok"
                 THEN [@ EXCEPT !.pc = "render", !.uptime = uptime_seconds]
                 ELSE [@ EXCEPT !.pc = "done", !.uptime = uptime_seconds,
                          !.resp = Response(500, "Internal Server Error",
                                            "Metrics generation failed", {})]]
    /\ UNCHANGED <<app_ready, startup_time, now, jobVars, fmtVars>>

\* lines 213-262: the exposition text is built, reading app_ready for the
\* gauge demo_app_ready
metrics_render(r) ==
    /\ req[r].ep = "metrics" /\ req[r].pc = "render"
    /\ req' = [req EXCEPT ![r] =
                 [@ EXCEPT !.pc = "done", !.ready_seen = app_ready,
                    !.resp = Response(200, "metrics", "",
                               {<<"demo_app_uptime_seconds", req[r].uptime>>,
                                <<"demo_app_ready", IF app_ready THEN 1 ELSE 0>>,
                                <<"demo_app_min_uptime_seconds",
                                  MIN_UPTIME_SECONDS>>})]]
    /\ UNCHANGED <<app_ready, startup_time, now, jobVars, fmtVars>>

\* ------------------------------------------------------------ after_request
\* the response is logged and handed to the client; the worker is free again
after_request(r) ==
    /\ req[r].pc = "done"
    /\ req' = [req EXCEPT ![r] = Idle]
    /\ UNCHANGED <<app_ready, startup_time, now, jobVars, fmtVars>>


\* ======================================================== lambda_function.py
\* ------------------------------------------------------------- format_email
\* Amounts are in thousandths of a dollar. A Cost Explorer response is
\* [present, ResultsByTime]: present says whether the key ResultsByTime is
\* there; a result is [Start, Total, Groups], a group [Keys, Amount] with the
\* service named by a number.
NoCostData == [present |-> FALSE, ResultsByTime |-> <<>>]

\* cost_data.get('ResultsByTime'): None when the key is absent
ResultsByTime(cd) == IF cd.present THEN cd.ResultsByTime ELSE <<>>

\* f"{x:.2f}": the amount in cents, rounded to the nearest cent (amounts that
\* lie exactly between two cents are not among the inputs)
Cents(m) == (m + 5) \div 10

\* one line of the text body or one element of the HTML body
Line(kind, name, n) == [kind |-> kind, name |-> name, n |-> n]

NoEmail == [subject |-> [text |-> "", amount |-> 0], text |-> <<>>, html |-> <<>>]

\* lines 111-116
NoDataEmail ==
    [subject |-> [text |-> "AWS Daily Cost Report - No Data", amount |-> 0],
     text |-> <<Line("No cost data available for yesterday.", 0, 0)>>,
     html |-> <<Line("<p>No cost data available for yesterday.</p>", 0, 0)>>]

\* sorted(..., reverse=True) keeps the order of groups of equal cost
InsertByCost(s, g) ==
    LET k == Len(SelectSeq(s, LAMBDA e : e.Amount >= g.Amount))
    IN SubSeq(s, 1, k) \o <<g>> \o SubSeq(s, k + 1, Len(s))

RECURSIVE SortedByCost(_)
SortedByCost(groups) ==
    IF groups = <<>> THEN <<>>
    ELSE InsertByCost(SortedByCost(SubSeq(groups, 1, Len(groups) - 1)),
                      groups[Len(groups)])

TopServices_ascending(groups) ==
    LET sorted == SortedByCost(groups)
        n == Len(sorted)
        reversed == [i \in 1..n |-> sorted[n + 1 - i]]
    IN SubSeq(reversed, 1, IF n < TopN THEN n ELSE TopN)

\* lines 123-127: the services by cost, the most expensive first, the first ten
TopServices(groups) ==
    LET sorted == SortedByCost(groups)
    IN SubSeq(sorted, 1, IF Len(sorted) < TopN THEN Len(sorted) ELSE TopN)

\* lines 136-140 and 160-169: one line per service of at least one cent
ServiceLines(kind, services) ==
    LET shown == SelectSeq(services, LAMBDA g : g.Amount >= OneCent)
    IN [i \in 1..Len(shown) |->
          Line(kind, shown[i].Keys, Cents(shown[i].Amount))]

\* format_email, lines 109-184
FormatEmail(cd) ==
    IF ResultsByTime(cd) = <<>> THEN NoDataEmail
    ELSE LET res == ResultsByTime(cd)[1]
             services == TopServices(res.Groups)
         IN [subject |-> [text |-> "AWS Daily Cost Report - $",
                          amount |-> Cents(res.Total)],
             text |-> <<Line("AWS Daily Cost Report - ", 0, res.Start),
                        Line("Total Cost: $", 0, Cents(res.Total)),
                        Line("Top Services:", 0, 0)>>
                      \o ServiceLines("service", services),
             html |-> <<Line("h2", 0, res.Start),
                        Line("h3 Total Cost: $", 0, Cents(res.Total)),
                        Line("h3 Top Services:", 0, 0)>>
                      \o ServiceLines("tr", services)
                      \o <<Line("Generated automatically by AWS Cost Notifier",
                                0, 0)>>]

\* the amounts of the groups and of the total that the inputs are drawn from:
\* below one cent, exactly one cent, and a larger one that rounds up
Amounts == {4, 10, 2506}
Totals == {123456}

\* a caller hands format_email a response: the key absent, no result, or one
\* result without groups yet
FormatInit ==
    /\ fmt_in \in {NoCostData, [present |-> TRUE, ResultsByTime |-> <<>>]}
                  \cup {[present |-> TRUE,
                         ResultsByTime |-> <<[Start |-> 1, Total |-> t,
                                              Groups |-> <<>>]>>] : t \in Totals}
    /\ fmt_out = NoEmail

\* the response has one more service group
AddGroup(a) ==
    /\ fmt_out = NoEmail
    /\ ResultsByTime(fmt_in) # <<>>
    /\ LET res == fmt_in.ResultsByTime[1] IN
       /\ Len(res.Groups) < MaxGroups
       /\ fmt_in' = [fmt_in EXCEPT !.ResultsByTime[1].Groups =
                        Append(@, [Keys |-> Len(res.Groups) + 1, Amount |-> a])]
    /\ UNCHANGED <<fmt_out, svcVars, jobVars>>

\* format_email(cost_data) is called
CallFormatEmail ==
    /\ fmt_out = NoEmail
    /\ fmt_out' = FormatEmail(fmt_in)
    /\ UNCHANGED <<fmt_in, svcVars, jobVars>>

\* the responses get_cost_and_usage gives in the runs of the handler: the key
\* absent, no result, and the result of test_format_email_with_data
CostResponses(d) ==
    {NoCostData,
     [present |-> TRUE, ResultsByTime |-> <<>>],
     [present |-> TRUE,
      ResultsByTime |-> <<[Start |-> d, Total |-> 123450,
                           Groups |-> <<[Keys |-> 1, Amount |-> 50000],
                                        [Keys |-> 2, Amount |-> 73450]>>]>>]}

Dates == 0..MaxDay

\* error codes a botocore ClientError can carry
ErrorCodes == {"Throttling", "RequestLimitExceeded", "SendingPausedException",
               "AccessDeniedException"}

\* what a call of an AWS API does: it returns, it raises a ClientError with
\* one of the codes, or it raises an exception that is no ClientError
ApiOutcomes == {"ok", "Exception"} \cup ErrorCodes
StoreOutcomes == {"ok", "Exception"}

NoItem == [status |-> "none", email_message_id |-> 0, sent_timestamp |-> 0]
NoResult == [kind |-> "none", message |-> "", duplicate_prevented |-> FALSE,
             email_message_id |-> 0, cause |-> ""]

Call(op, n, out) == [op |-> op, n |-> n, out |-> out]
\* time.sleep(wait_time) in the retry loop of function fn
Sleep(fn, wait_time) == [op |-> "sleep", n |-> wait_time, out |-> fn]

\* lambda_handler answering an error with a payload instead of raising
Raise_as_payload(message, cause) ==
    [kind |-> "return", message |-> message, duplicate_prevented |-> FALSE,
     email_message_id |-> 0, cause |-> cause]

\* raise CostNotifierError(f"{message}: {cause}"), re-raised by lambda_handler
\* (lines 283-286)
Raise(message, cause) ==
    [kind |-> "raise", message |-> message, duplicate_prevented |-> FALSE,
     email_message_id |-> 0, cause |-> cause]

\* the clock of the notifier passes midnight (UTC); this can happen between
\* any two steps of an invocation and between invocations
Midnight ==
    /\ today < MaxDay
    /\ today' = today + 1
    /\ UNCHANGED <<table, pc, already_sent, attempt, yesterday, cost_data, email_content,
                   email_result, result, log, invocations, ses_seq, delivered,
                   store_failures, svcVars, fmtVars>>

\* lambda_handler, lines 235-240: the scheduler invokes the function; the
\* invocations do not overlap
lambda_handler ==
    /\ pc \in {"idle", "returned", "raised"}
    /\ invocations < MaxInvocations
    /\ invocations' = invocations + 1
    /\ pc' = "already_sent_today"
    /\ already_sent' = FALSE
    /\ attempt' = 0
    /\ yesterday' = 0
    /\ cost_data' = NoCostData
    /\ email_content' = NoEmail
    /\ email_result' = [MessageId |-> 0]
    /\ result' = NoResult
    /\ log' = <<>>
    /\ UNCHANGED <<today, table, ses_seq, delivered, store_failures, svcVars, fmtVars>>

\* already_sent_today returning True from its except branch (fail-closed)
already_sent_today_fail_closed(o) ==
    /\ pc = "already_sent_today"
    /\ LET key == today - 1
           sent == o # "ok" \/ table[key] # NoItem
       IN /\ log' = Append(log, Call("get_item", key, o))
          /\ store_failures' = IF o = "ok" THEN store_failures
                                           ELSE store_failures + 1
          /\ already_sent' = sent
          /\ IF sent
             THEN /\ pc' = "returned"
                  /\ result' = [kind |-> "return",
                                message |-> "Cost report already sent today",
                                duplicate_prevented |-> TRUE,
                                email_message_id |-> 0, cause |-> ""]
             ELSE /\ pc' = "get_cost_data_entry"
                  /\ result' = result
    /\ UNCHANGED <<today, table, attempt, yesterday, cost_data, email_content,
                   email_result, invocations, ses_seq, delivered, svcVars, fmtVars>>

\* lambda_handler without the return of lines 245-251: the duplicate is
\* logged and the handler goes on
already_sent_today_no_return(o) ==
    /\ pc = "already_sent_today"
    /\ LET key == today - 1
           sent == o = "ok" /\ table[key] # NoItem
       IN /\ log' = Append(log, Call("get_item", key, o))
          /\ store_failures' = IF o = "ok" THEN store_failures
                                           ELSE store_failures + 1
          /\ already_sent' = sent
          /\ pc' = "get_cost_data_entry"
          /\ result' = result
    /\ UNCHANGED <<today, table, attempt, yesterday, cost_data, email_content,
                   email_result, invocations, ses_seq, delivered, svcVars, fmtVars>>

\* already_sent_today never finding the item of an answered lookup
already_sent_today_item_missed(o) ==
    /\ pc = "already_sent_today"
    /\ LET key == today - 1 IN
          /\ log' = Append(log, Call("get_item", key, o))
          /\ store_failures' = IF o = "ok" THEN store_failures
                                           ELSE store_failures + 1
          /\ already_sent' = FALSE
          /\ pc' = "get_cost_data_entry"
          /\ result' = result
    /\ UNCHANGED <<today, table, attempt, yesterday, cost_data, email_content,
                   email_result, invocations, ses_seq, delivered, svcVars, fmtVars>>

\* already_sent_today, lines 26-42, and lambda_handler, lines 244-251
already_sent_today(o) ==
    /\ pc = "already_sent_today"
    /\ LET key == today - 1
           sent == o = "ok" /\ table[key] # NoItem
       IN /\ log' = Append(log, Call("get_item", key, o))
          /\ store_failures' = IF o = "ok" THEN store_failures
                                           ELSE store_failures + 1
          /\ already_sent' = sent
          /\ IF sent
             THEN /\ pc' = "returned"
                  /\ result' = [kind |-> "return",
                                message |-> "Cost report already sent today",
                                duplicate_prevented |-> TRUE,
                                email_message_id |-> 0, cause |-> ""]
             ELSE /\ pc' = "get_cost_data_entry"
                  /\ result' = result
    /\ UNCHANGED <<today, table, attempt, yesterday, cost_data, email_content,
                   email_result, invocations, ses_seq, delivered, svcVars, fmtVars>>

\* get_cost_data, lines 66-70
get_cost_data_entry ==
    /\ pc = "get_cost_data_entry"
    /\ yesterday' = today - 1
    /\ attempt' = 0
    /\ pc' = "get_cost_data"
    /\ UNCHANGED <<today, table, already_sent, cost_data, email_content, email_result, result,
                   log, invocations, ses_seq, delivered, store_failures, svcVars, fmtVars>>

\* get_cost_data waiting 2 ** (attempt + 1) seconds
get_cost_data_except_late(o, att) ==
    IF o \in ErrorCodes
    THEN IF o \in {"Throttling", "RequestLimitExceeded"} /\ att < max_retries - 1
         THEN [do |-> "sleep", wait_time |-> 2 ^ (att + 1), message |-> ""]
         ELSE [do |-> "raise", wait_time |-> 0,
               message |-> "Cost Explorer API failed"]
    ELSE IF att < max_retries - 1
         THEN [do |-> "sleep", wait_time |-> 2 ^ (att + 1), message |-> ""]
         ELSE [do |-> "raise", wait_time |-> 0,
               message |-> "Failed to get cost data"]

\* get_cost_data with attempt < max_retries for attempt < max_retries - 1
get_cost_data_except_off_by_one(o, att) ==
    IF o \in ErrorCodes
    THEN IF o \in {"Throttling", "RequestLimitExceeded"} /\ att < max_retries
         THEN [do |-> "sleep", wait_time |-> 2 ^ att, message |-> ""]
         ELSE [do |-> "raise", wait_time |-> 0,
               message |-> "Cost Explorer API failed"]
    ELSE IF att < max_retries
         THEN [do |-> "sleep", wait_time |-> 2 ^ att, message |-> ""]
         ELSE [do |-> "raise", wait_time |-> 0,
               message |-> "Failed to get cost data"]

\* get_cost_data retrying every ClientError, whatever its code
get_cost_data_except_any_code(o, att) ==
    IF att < max_retries - 1
    THEN [do |-> "sleep", wait_time |-> 2 ^ att, message |-> ""]
    ELSE [do |-> "raise", wait_time |-> 0,
          message |-> IF o \in ErrorCodes THEN "Cost Explorer API failed"
                                          ELSE "Failed to get cost data"]

\* get_cost_data, lines 90-104: what the loop does with a failed attempt
get_cost_data_except(o, att) ==
    IF o \in ErrorCodes
    THEN IF o \in {"Throttling", "RequestLimitExceeded"} /\ att < max_retries - 1
         THEN [do |-> "sleep", wait_time |-> 2 ^ att, message |-> ""]
         ELSE [do |-> "raise", wait_time |-> 0,
               message |-> "Cost Explorer API failed"]
    ELSE IF att < max_retries - 1
         THEN [do |-> "sleep", wait_time |-> 2 ^ att, message |-> ""]
         ELSE [do |-> "raise", wait_time |-> 0,
               message |-> "Failed to get cost data"]

\* get_cost_data, lines 72-104: one iteration of the retry loop
get_cost_data(o) ==
    /\ pc = "get_cost_data"
    /\ attempt < max_retries
    /\ LET call == Call("get_cost_and_usage", attempt, o)
           handler == get_cost_data_except(o, attempt)
       IN IF o = "ok"
          THEN /\ cost_data' \in CostResponses(yesterday)
               /\ log' = Append(log, call)
               /\ pc' = "format_email"
               /\ UNCHANGED <<attempt, result>>
          ELSE IF handler.do = "sleep"
          THEN /\ log' = log \o <<call, Sleep("get_cost_data", handler.wait_time)>>
               /\ attempt' = attempt + 1
               /\ UNCHANGED <<pc, cost_data, result>>
          ELSE /\ log' = Append(log, call)
               /\ result' = Raise(handler.message, o)
               /\ pc' = "raised"
               /\ UNCHANGED <<attempt, cost_data>>
    /\ UNCHANGED <<today, table, already_sent, yesterday, email_content, email_result,
                   invocations, ses_seq, delivered, store_failures, svcVars, fmtVars>>

\* get_cost_data, line 106: the loop ran out of iterations
get_cost_data_exhausted ==
    /\ pc = "get_cost_data"
    /\ attempt >= max_retries
    /\ result' = Raise("Exhausted all retry attempts", "")
    /\ pc' = "raised"
    /\ UNCHANGED <<today, table, already_sent, attempt, yesterday, cost_data, email_content,
                   email_result, log, invocations, ses_seq, delivered,
                   store_failures, svcVars, fmtVars>>

\* lambda_handler returning without an email when there is no cost data
format_email_skips_no_data ==
    /\ pc = "format_email"
    /\ email_content' = FormatEmail(cost_data)
    /\ attempt' = 0
    /\ IF ResultsByTime(cost_data) = <<>>
       THEN /\ pc' = "returned"
            /\ result' = [kind |-> "return", message |-> "No cost data",
                          duplicate_prevented |-> FALSE,
                          email_message_id |-> 0, cause |-> ""]
       ELSE /\ pc' = "send_email"
            /\ result' = result
    /\ UNCHANGED <<today, table, already_sent, yesterday, cost_data, email_result, log,
                   invocations, ses_seq, delivered, store_failures, svcVars, fmtVars>>

\* lambda_handler, line 257: email_content = format_email(cost_data)
format_email ==
    /\ pc = "format_email"
    /\ email_content' = FormatEmail(cost_data)
    /\ attempt' = 0
    /\ pc' = "send_email"
    /\ UNCHANGED <<today, table, already_sent, yesterday, cost_data, email_result, result, log,
                   invocations, ses_seq, delivered, store_failures, svcVars, fmtVars>>

\* send_email retrying every ClientError, whatever its code
send_email_except_any_code(o, att) ==
    IF att < max_retries - 1
    THEN [do |-> "sleep", wait_time |-> 2 ^ att, message |-> ""]
    ELSE [do |-> "raise", wait_time |-> 0,
          message |-> IF o \in ErrorCodes THEN "SES email failed"
                                          ELSE "Failed to send email"]

\* send_email, lines 216-230: what the loop does with a failed attempt
send_email_except(o, att) ==
    IF o \in ErrorCodes
    THEN IF o \in {"Throttling", "SendingPausedException"} /\ att < max_retries - 1
         THEN [do |-> "sleep", wait_time |-> 2 ^ att, message |-> ""]
         ELSE [do |-> "raise", wait_time |-> 0, message |-> "SES email failed"]
    ELSE IF att < max_retries - 1
         THEN [do |-> "sleep", wait_time |-> 2 ^ att, message |-> ""]
         ELSE [do |-> "raise", wait_time |-> 0,
               message |-> "Failed to send email"]

\* lambda_handler going on to the dedup record after a failed send
send_email_swallowed(o) ==
    /\ pc = "send_email"
    /\ attempt < max_retries
    /\ LET call == Call("send_email", attempt, o)
           handler == send_email_except(o, attempt)
       IN IF o = "ok"
          THEN /\ ses_seq' = ses_seq + 1
               /\ email_result' = [MessageId |-> ses_seq + 1]
               /\ delivered' = [delivered EXCEPT ![yesterday] = @ + 1]
               /\ log' = Append(log, call)
               /\ pc' = "mark_as_sent"
               /\ UNCHANGED <<attempt, result>>
          ELSE IF handler.do = "sleep"
          THEN /\ log' = log \o <<call, Sleep("send_email", handler.wait_time)>>
               /\ attempt' = attempt + 1
               /\ UNCHANGED <<pc, email_result, result, ses_seq, delivered>>
          ELSE /\ log' = Append(log, call)
               /\ pc' = "mark_as_sent"
               /\ UNCHANGED <<attempt, result, email_result, ses_seq, delivered>>
    /\ UNCHANGED <<today, table, already_sent, yesterday, cost_data, email_content,
                   invocations, store_failures, svcVars, fmtVars>>

\* send_email, lines 195-230: one iteration of the retry loop
send_email(o) ==
    /\ pc = "send_email"
    /\ attempt < max_retries
    /\ LET call == Call("send_email", attempt, o)
           handler == send_email_except(o, attempt)
       IN IF o = "ok"
          THEN /\ ses_seq' = ses_seq + 1
               /\ email_result' = [MessageId |-> ses_seq + 1]
               /\ delivered' = [delivered EXCEPT ![yesterday] = @ + 1]
               /\ log' = Append(log, call)
               /\ pc' = "mark_as_sent"
               /\ UNCHANGED <<attempt, result>>
          ELSE IF handler.do = "sleep"
          THEN /\ log' = log \o <<call, Sleep("send_email", handler.wait_time)>>
               /\ attempt' = attempt + 1
               /\ UNCHANGED <<pc, email_result, result, ses_seq, delivered>>
          ELSE /\ log' = Append(log, call)
               /\ result' = Raise(handler.message, o)
               /\ pc' = "raised"
               /\ UNCHANGED <<attempt, email_result, ses_seq, delivered>>
    /\ UNCHANGED <<today, table, already_sent, yesterday, cost_data, email_content,
                   invocations, store_failures, svcVars, fmtVars>>

\* send_email, line 232: the loop ran out of iterations
send_email_exhausted ==
    /\ pc = "send_email"
    /\ attempt >= max_retries
    /\ result' = Raise("Exhausted all email retry attempts", "")
    /\ pc' = "raised"
    /\ UNCHANGED <<today, table, already_sent, attempt, yesterday, cost_data, email_content,
                   email_result, log, invocations, ses_seq, delivered,
                   store_failures, svcVars, fmtVars>>

\* mark_as_sent keyed by the day of the run instead of the day before
mark_as_sent_run_day(o) ==
    /\ pc = "mark_as_sent"
    /\ LET key == today IN
       /\ log' = Append(log, Call("put_item", key, o))
       /\ IF o = "ok"
          THEN /\ table' = [table EXCEPT ![key] =
                              [status |-> "sent",
                               email_message_id |-> email_result.MessageId,
                               sent_timestamp |-> today]]
               /\ UNCHANGED store_failures
          ELSE /\ store_failures' = store_failures + 1
               /\ UNCHANGED table
    /\ result' = [kind |-> "return",
                  message |-> "Cost notification sent successfully",
                  duplicate_prevented |-> FALSE,
                  email_message_id |-> email_result.MessageId, cause |-> ""]
    /\ pc' = "returned"
    /\ UNCHANGED <<today, already_sent, attempt, yesterday, cost_data, email_content,
                   email_result, invocations, ses_seq, delivered, svcVars, fmtVars>>

\* mark_as_sent without its except branch: the error of put_item propagates
mark_as_sent_raising(o) ==
    /\ pc = "mark_as_sent"
    /\ LET key == today - 1 IN
       /\ log' = Append(log, Call("put_item", key, o))
       /\ IF o = "ok"
          THEN /\ table' = [table EXCEPT ![key] =
                              [status |-> "sent",
                               email_message_id |-> email_result.MessageId,
                               sent_timestamp |-> today]]
               /\ result' = [kind |-> "return",
                             message |-> "Cost notification sent successfully",
                             duplicate_prevented |-> FALSE,
                             email_message_id |-> email_result.MessageId,
                             cause |-> ""]
               /\ pc' = "returned"
               /\ UNCHANGED store_failures
          ELSE /\ store_failures' = store_failures + 1
               /\ result' = Raise("Error updating tracking table", o)
               /\ pc' = "raised"
               /\ UNCHANGED table
    /\ UNCHANGED <<today, already_sent, attempt, yesterday, cost_data, email_content,
                   email_result, invocations, ses_seq, delivered, svcVars, fmtVars>>

\* mark_as_sent, lines 45-61, and lambda_handler, lines 263-281
mark_as_sent(o) ==
    /\ pc = "mark_as_sent"
    /\ LET key == today - 1 IN
       /\ log' = Append(log, Call("put_item", key, o))
       /\ IF o = "ok"
          THEN /\ table' = [table EXCEPT ![key] =
                              [status |-> "sent",
                               email_message_id |-> email_result.MessageId,
                               sent_timestamp |-> today]]
               /\ UNCHANGED store_failures
          ELSE /\ store_failures' = store_failures + 1
               /\ UNCHANGED table
    /\ result' = [kind |-> "return",
                  message |-> "Cost notification sent successfully",
                  duplicate_prevented |-> FALSE,
                  email_message_id |-> email_result.MessageId, cause |-> ""]
    /\ pc' = "returned"
    /\ UNCHANGED <<today, already_sent, attempt, yesterday, cost_data, email_content,
                   email_result, invocations, ses_seq, delivered, svcVars, fmtVars>>

\* app.py, lines 21-23: the state of the service when the module is loaded
ServiceInit ==
    /\ app_ready = TRUE
    /\ startup_time \in 0..MaxStart
    /\ now = startup_time
    /\ req = [r \in Requests |-> Idle]

\* the notifier before its first invocation, with an empty tracking table
JobInit ==
    /\ today = 1
    /\ already_sent = FALSE
    /\ table = [d \in Dates |-> NoItem]
    /\ pc = "idle"
    /\ attempt = 0
    /\ yesterday = 0
    /\ cost_data = NoCostData
    /\ email_content = NoEmail
    /\ email_result = [MessageId |-> 0]
    /\ result = NoResult
    /\ log = <<>>
    /\ invocations = 0
    /\ ses_seq = 0
    /\ delivered = [d \in Dates |-> 0]
    /\ store_failures = 0

\* format_email has not been called
FormatIdle == fmt_in = NoCostData /\ fmt_out = NoEmail

Init == ServiceInit /\ JobInit /\ FormatIdle

Next ==
    \/ signal_handler
    \/ Tick
    \/ ClockSetBack
    \/ \E r \in Requests, ep \in {"healthz", "readiness", "metrics"} :
          before_request(r, ep)
    \/ \E r \in Requests : health_check_clock(r)
    \/ \E r \in Requests : health_check_flag(r)
    \/ \E r \in Requests : readiness_check_flag(r)
    \/ \E r \in Requests : readiness_check_clock(r)
    \/ \E r \in Requests, o \in {"ok", "Exception"} : metrics_sample(r, o)
    \/ \E r \in Requests : metrics_render(r)
    \/ \E r \in Requests : after_request(r)

Spec == Init /\ [][Next]_vars

JobNext ==
    \/ Midnight
    \/ lambda_handler
    \/ \E o \in StoreOutcomes : already_sent_today(o)
    \/ get_cost_data_entry
    \/ \E o \in ApiOutcomes : get_cost_data(o)
    \/ format_email
    \/ \E o \in ApiOutcomes : send_email(o)
    \/ \E o \in StoreOutcomes : mark_as_sent(o)

\* the notifier runs on its own; the state of the service stays as loaded
JobSpecInit == Init /\ startup_time = 0

JobSpec == JobSpecInit /\ [][JobNext]_vars

\* the notifier with a dedup store that answers every lookup and every write,
\* and with midnight falling only between invocations
MidnightBetweenInvocations ==
    /\ pc \in {"idle", "returned", "raised"}
    /\ Midnight

ReliableStoreNext ==
    \/ MidnightBetweenInvocations
    \/ lambda_handler
    \/ already_sent_today("ok")
    \/ get_cost_data_entry
    \/ \E o \in ApiOutcomes : get_cost_data(o)
    \/ format_email
    \/ \E o \in ApiOutcomes : send_email(o)
    \/ mark_as_sent("ok")

ReliableStoreSpec == JobSpecInit /\ [][ReliableStoreNext]_vars

\* format_email on its own, on every response within the bounds
FormatSpecInit == ServiceInit /\ startup_time = 0 /\ JobInit /\ FormatInit

FormatNext ==
    \/ \E a \in Amounts : AddGroup(a)
    \/ CallFormatEmail

FormatSpec == FormatSpecInit /\ [][FormatNext]_vars
\* ===================================================================== claims
\* ------------------------------------------------------------ the service
Answered(r, ep) == req[r].ep = ep /\ req[r].pc = "done"

\* the step in which worker r returns the response of a request for ep
Answers(r, ep) == req[r].ep = ep /\ req[r].pc # "done" /\ req'[r].pc = "done"

\* the reason names the uptime observed and the uptime required
CitesBoth(resp, observed) ==
    /\ resp.reason = "Minimum uptime not reached"
    /\ resp.values = {<<"observed", observed>>,
                      <<"required", MIN_UPTIME_SECONDS>>}

\* C1: a /readiness request that begins after signal_handler has run is
\* answered 503 not_ready, whatever the clock says and whatever requests and
\* signals came before it.
C1_NotReadyAfterSignal ==
    \A r \in Requests :
        (Answered(r, "readiness") /\ req[r].signalled)
            => (req[r].resp.code = 503 /\ req[r].resp.status = "not_ready")

\* a readiness request made after the signal, answered 503 although the
\* minimum uptime has passed
C1_Witness ==
    \E r \in Requests :
        /\ Answered(r, "readiness") /\ req[r].signalled
        /\ now - startup_time >= MIN_UPTIME_SECONDS
        /\ req[r].resp.code = 503

\* C2 as stated: /healthz answers 500 exactly when the uptime it computed is
\* negative, and 200 healthy whenever the uptime is >= 0, whatever the flag.
C2_UnhealthyIffNegativeUptime ==
    \A r \in Requests :
        Answered(r, "healthz")
            => /\ (req[r].resp.code = 500) <=> (req[r].uptime < 0)
               /\ (req[r].uptime >= 0)
                    => (req[r].resp.code = 200 /\ req[r].resp.status = "healthy")

\* C2 as amended: /healthz answers 500 unhealthy exactly when the uptime it
\* computed is negative or it read app_ready as false (a termination signal
\* was received); otherwise it answers 200 healthy. A request that begins
\* after the signal is never answered healthy.
C2_UnhealthyIffNegativeOrSignalled ==
    \A r \in Requests :
        Answered(r, "healthz")
            => /\ (req[r].resp.code = 500 /\ req[r].resp.status = "unhealthy")
                    <=> (req[r].uptime < 0 \/ ~req[r].ready_seen)
               /\ (req[r].resp.code = 200 /\ req[r].resp.status = "healthy")
                    <=> (req[r].uptime >= 0 /\ req[r].ready_seen)
               /\ req[r].signalled => req[r].resp.code = 500

\* a liveness request made after the signal with a non-negative uptime,
\* answered 500
C2_Witness ==
    \E r \in Requests :
        /\ Answered(r, "healthz") /\ req[r].signalled
        /\ req[r].uptime >= 0
        /\ req[r].resp.code = 500
        /\ req[r].resp.reason = "Application shutting down"

\* C3 as stated: a /readiness response given while now < startup_time +
\* MIN_UPTIME_SECONDS is not_ready with a reason that cites the observed and
\* the required uptime, whether or not a signal was received.
C3_CitesUptimeAlways ==
    [][\A r \in Requests :
         (Answers(r, "readiness") /\ now - startup_time < MIN_UPTIME_SECONDS)
             => /\ req'[r].resp.status = "not_ready"
                /\ CitesBoth(req'[r].resp, now - startup_time)]_vars

\* C3 as amended: a /readiness response given while now < startup_time +
\* MIN_UPTIME_SECONDS is 503 not_ready; its reason cites the observed and the
\* required uptime when the handler read app_ready as true, and is the fixed
\* text of the shutdown branch, citing neither, when it read app_ready as false.
C3_CitesUptimeUnlessSignalled ==
    [][\A r \in Requests :
         (Answers(r, "readiness") /\ now - startup_time < MIN_UPTIME_SECONDS)
             => /\ req'[r].resp.code = 503
                /\ req'[r].resp.status = "not_ready"
                /\ req'[r].ready_seen
                     => CitesBoth(req'[r].resp, now - startup_time)
                /\ ~req'[r].ready_seen
                     => /\ req'[r].resp.reason =
                              "Application not ready to serve traffic"
                        /\ req'[r].resp.values = {}]_vars

\* a readiness response before the minimum uptime, with no signal received,
\* whose reason cites both values
C3_Witness ==
    \E r \in Requests :
        /\ Answered(r, "readiness") /\ req[r].ready_seen /\ app_ready
        /\ req[r].uptime \in 0..(MIN_UPTIME_SECONDS - 1)
        /\ CitesBoth(req[r].resp, req[r].uptime)

\* C4: /readiness answers 200 ready exactly when it read app_ready as true and
\* computed an uptime >= MIN_UPTIME_SECONDS; in every other case it answers
\* 503 not_ready with a reason.
C4_ReadyIff ==
    \A r \in Requests :
        Answered(r, "readiness")
            => LET ok == req[r].ready_seen
                         /\ req[r].uptime >= MIN_UPTIME_SECONDS
               IN /\ (req[r].resp.code = 200 /\ req[r].resp.status = "ready")
                       <=> ok
                  /\ ~ok => /\ req[r].resp.code = 503
                            /\ req[r].resp.status = "not_ready"
                            /\ req[r].resp.reason # ""

\* the boundary: an uptime of exactly MIN_UPTIME_SECONDS is answered ready
C4_Witness ==
    \E r \in Requests :
        /\ Answered(r, "readiness")
        /\ req[r].ready_seen
        /\ req[r].uptime = MIN_UPTIME_SECONDS
        /\ req[r].resp.code = 200 /\ req[r].resp.status = "ready"
\* ------------------------------------------------------------ the notifier
\* the two retry loops: the function, the API operation it calls and the
\* error codes it retries
Loops ==
    {[fn |-> "get_cost_data", op |-> "get_cost_and_usage",
      retryable |-> {"Throttling", "RequestLimitExceeded"}],
     [fn |-> "send_email", op |-> "send_email",
      retryable |-> {"Throttling", "SendingPausedException"}]}

\* the calls loop L made in this invocation, and its calls and sleeps
CallsOf(L) == SelectSeq(log, LAMBDA e : e.op = L.op)
Segment(L) ==
    SelectSeq(log, LAMBDA e : e.op = L.op \/ (e.op = "sleep" /\ e.out = L.fn))
SleepsOf(L) == SelectSeq(log, LAMBDA e : e.op = "sleep" /\ e.out = L.fn)

\* lines 106 and 232 are never reached: both loops leave through a return or
\* a raise within max_retries iterations
ExhaustedUnreachable ==
    /\ ~ENABLED get_cost_data_exhausted
    /\ ~ENABLED send_email_exhausted

C6_TwoRetriesThenSuccess ==
    \A L \in Loops :
        LET calls == CallsOf(L) IN
        (/\ Len(calls) = 3
         /\ calls[1].out \in L.retryable
         /\ calls[2].out \in L.retryable
         /\ calls[3].out = "ok")
            => /\ Segment(L) = <<Call(L.op, 0, calls[1].out), Sleep(L.fn, 1),
                                 Call(L.op, 1, calls[2].out), Sleep(L.fn, 2),
                                 Call(L.op, 2, "ok")>>
               /\ L.fn = "get_cost_data"
                    => /\ cost_data \in CostResponses(yesterday)
                       /\ pc \in {"format_email", "send_email", "mark_as_sent",
                                  "returned", "raised"}
                       /\ pc = "raised" => log[Len(log)].op = "send_email"
               /\ L.fn = "send_email"
                    => /\ email_result = [MessageId |-> ses_seq]
                       /\ ses_seq > 0
                       /\ pc \in {"mark_as_sent", "returned"}
                       /\ pc = "returned"
                            => result.email_message_id = ses_seq

\* get_cost_data throttled twice (once with each retryable code), then served
C6_Witness ==
    /\ pc = "format_email"
    /\ Len(log) = 6
    /\ log[2] = Call("get_cost_and_usage", 0, "Throttling")
    /\ log[3] = Sleep("get_cost_data", 1)
    /\ log[4] = Call("get_cost_and_usage", 1, "RequestLimitExceeded")
    /\ log[5] = Sleep("get_cost_data", 2)
    /\ log[6] = Call("get_cost_and_usage", 2, "ok")

\* the messages of the errors a loop raises for a non-retryable code
TerminalMessages(L) ==
    IF L.fn = "get_cost_data"
    THEN {get_cost_data_except(c, 0).message : c \in ErrorCodes \ L.retryable}
    ELSE {send_email_except(c, 0).message : c \in ErrorCodes \ L.retryable}

\* C7 as stated: when all max_retries attempts of a loop failed, the error
\* raised wraps the last underlying error and is not the error the loop
\* raises for a non-retryable code.
C7_RetryExhaustedDistinct ==
    \A L \in Loops :
        LET calls == CallsOf(L) IN
        (/\ pc = "raised"
         /\ Len(calls) = max_retries
         /\ log[Len(log)] = calls[max_retries])
            => /\ result.cause = calls[max_retries].out
               /\ result.message \notin TerminalMessages(L)

\* C8: already_sent_today returns True only when get_item succeeded and
\* found an item for the report date; it returns False when there is no item
\* and when get_item failed, and then nothing is raised: the handler goes on
\* to get_cost_data.
C8_DedupFailOpen ==
    Len(log) >= 1 =>
        LET e == log[1] IN
        /\ e.op = "get_item"
        /\ already_sent => e.out = "ok"
        /\ Len(log) = 1 =>
             (already_sent <=> (e.out = "ok" /\ table[e.n] # NoItem))
        /\ e.out # "ok" =>
             /\ ~already_sent
             /\ Len(log) = 1 => /\ pc \in {"get_cost_data_entry", "get_cost_data"}
                                /\ result = NoResult
        /\ result.kind = "raise" =>
             (Len(log) >= 2 /\ log[Len(log)].op # "get_item")

\* the lookup fails although the record is there: False, and on to the query
C8_Witness ==
    /\ log = <<Call("get_item", today - 1, "Exception")>>
    /\ table[today - 1] # NoItem
    /\ ~already_sent
    /\ pc = "get_cost_data_entry"

\* C9: an invocation whose dedup check returned True made no other external
\* call (no cost query, no email, no put_item) and returned the result
\* marked duplicate_prevented.
C9_DuplicateSkipsEverything ==
    already_sent
        => /\ Len(log) = 1 /\ log[1].op = "get_item"
           /\ pc = "returned"
           /\ result = [kind |-> "return",
                        message |-> "Cost report already sent today",
                        duplicate_prevented |-> TRUE,
                        email_message_id |-> 0, cause |-> ""]

\* a second invocation finds the record the first one wrote and stops
C9_Witness ==
    /\ already_sent
    /\ pc = "returned"
    /\ invocations = 2
    /\ delivered[today - 1] = 1
    /\ table[today - 1].status = "sent"

\* C10 as stated: the email for a report date is accepted by SES at most once.
C10_AtMostOncePerDay ==
    \A d \in Dates : delivered[d] <= 1

\* C10 as amended: the email for a report date is accepted by SES at most
\* once more than the number of get_item and put_item calls that failed.
C10_AtMostOncePlusStoreFailures ==
    \A d \in Dates : delivered[d] <= 1 + store_failures

\* one failed store call, and the report of one date sent twice
C10_Witness ==
    \E d \in Dates : delivered[d] = 2 /\ store_failures = 1
\* the last external call of the running invocation
LastCall == log[Len(log)]

\* C11 as stated: when put_item fails after the email was sent, the invocation
\* returns the success payload with the message id of the email, and the table
\* has no item for that date.
C11_WriteFailureLeavesNoRecord ==
    (pc = "returned" /\ Len(log) >= 1 /\ LastCall.op = "put_item"
        /\ LastCall.out # "ok")
        => /\ result.kind = "return"
           /\ result.email_message_id = email_result.MessageId
           /\ table[LastCall.n] = NoItem

\* C11 as amended: when put_item fails after the email was sent, nothing is
\* raised, the invocation returns the success payload with the message id of
\* the email just sent, and the table is left as it was before the write:
\* without an item for that date when the lookup of this invocation had found
\* none, with the item of an earlier invocation when the lookup had failed.
C11_WriteFailureSwallowed ==
    [][(pc = "mark_as_sent" /\ pc' # "mark_as_sent"
            /\ log'[Len(log')].out # "ok")
        => /\ pc' = "returned"
           /\ result'.kind = "return"
           /\ result'.message = "Cost notification sent successfully"
           /\ result'.email_message_id = email_result.MessageId
           /\ email_result.MessageId = ses_seq /\ ses_seq > 0
           /\ table' = table
           /\ (log[1].out = "ok" /\ log[1].n = log'[Len(log')].n)
                => table'[log[1].n] = NoItem]_vars

\* the email went out, the write failed, the payload carries the message id
\* and the table has no item for the date
C11_Witness ==
    /\ pc = "returned" /\ Len(log) >= 1
    /\ LastCall = Call("put_item", today - 1, "Exception")
    /\ result.email_message_id = ses_seq /\ ses_seq > 0
    /\ table[today - 1] = NoItem
\* SES accepted the email of the running invocation
SendSucceeded == \E i \in 1..Len(log) : log[i].op = "send_email" /\ log[i].out = "ok"

\* the cost query or the email send of the running invocation failed for
\* good: the failed call is the last thing the invocation did
FinallyFailed ==
    /\ Len(log) >= 1
    /\ LastCall.op \in {"get_cost_and_usage", "send_email"}
    /\ LastCall.out # "ok"

\* C12: an invocation ends either by returning a success payload, exactly
\* when the dedup check returned True or SES accepted the email, or by raising
\* an error, exactly when the cost query or the email send finally failed; it
\* never returns a payload after such a failure.
C12_SuccessOrRaise ==
    /\ pc = "returned"
         => /\ result.kind = "return"
            /\ result.message \in {"Cost report already sent today",
                                   "Cost notification sent successfully"}
            /\ already_sent \/ SendSucceeded
            /\ ~FinallyFailed
    /\ pc = "raised"
         => /\ result.kind = "raise"
            /\ FinallyFailed
            /\ ~already_sent /\ ~SendSucceeded
    /\ pc \notin {"returned", "raised"} => result = NoResult
    /\ FinallyFailed => (pc = "raised" /\ result.kind = "raise")
    /\ (already_sent \/ SendSucceeded) => pc \in {"mark_as_sent", "returned"}
    /\ result.kind = "return" <=> pc = "returned"

\* the cost query succeeded, the email send failed for good: the error is raised
C12_Witness ==
    /\ pc = "raised" /\ result.kind = "raise"
    /\ Len(log) >= 3
    /\ LastCall.op = "send_email" /\ LastCall.n = max_retries - 1
    /\ \E i \in 1..Len(log) : log[i] = Call("get_cost_and_usage", 0, "ok")
\* the state of the readiness state machine; STARTING and READY are not
\* stored, they are what the uptime says at the instant
ReadinessState ==
    IF ~app_ready THEN "DRAINING"
    ELSE IF now - startup_time >= MIN_UPTIME_SECONDS THEN "READY"
    ELSE "STARTING"

\* C15: app_ready starts true; a step that changes it is a step of
\* signal_handler, which sets it to false and changes nothing else;
\* startup_time never changes; from STARTING and from READY the signal leads
\* to DRAINING; once DRAINING, every step (request, signal, clock) leaves the
\* machine DRAINING.
C15_OneWay ==
    /\ app_ready = TRUE
    /\ [](app_ready => ENABLED (signal_handler /\ ReadinessState' = "DRAINING"))
    /\ [][/\ ~app_ready => ~app_ready'
          /\ app_ready' # app_ready
               => (app_ready /\ ~app_ready' /\ UNCHANGED <<now, req>>)
          /\ startup_time' = startup_time
          /\ ReadinessState = "DRAINING" => ReadinessState' = "DRAINING"]_vars

\* DRAINING entered before the minimum uptime, and a readiness request that
\* began there answered not_ready
C15_Witness ==
    /\ ReadinessState = "DRAINING"
    /\ now - startup_time \in 0..(MIN_UPTIME_SECONDS - 1)
    /\ \E r \in Requests : Answered(r, "readiness") /\ req[r].signalled
                           /\ req[r].resp.code = 503
\* C16: whatever the failures are, each retry loop calls its operation at most
\* max_retries times, with attempt indices 0, 1, 2 in order, and sleeps at most
\* max_retries - 1 times, each sleep right after a failed attempt 0 or 1; a
\* failure of the last attempt is the last thing the invocation does and is
\* raised; while the loop runs its index is below max_retries, so the loop
\* ends within max_retries iterations.
C16_BoundedAttempts ==
    \A L \in Loops :
        LET calls == CallsOf(L)
            seg == Segment(L)
        IN /\ Len(calls) <= max_retries
           /\ Len(SleepsOf(L)) <= max_retries - 1
           /\ \A i \in 1..Len(calls) : calls[i].n = i - 1
           /\ \A i \in 1..Len(seg) :
                /\ seg[i].op = "sleep"
                     => /\ i > 1
                        /\ seg[i - 1].op = L.op
                        /\ seg[i - 1].out # "ok"
                        /\ seg[i - 1].n < max_retries - 1
                /\ (seg[i].op = L.op /\ seg[i].n = max_retries - 1
                        /\ seg[i].out # "ok")
                     => (i = Len(seg) /\ LastCall = seg[i] /\ pc = "raised")
           /\ pc = L.fn => (attempt = Len(calls) /\ attempt < max_retries)

\* three failed attempts of mixed kinds, two sleeps, and the error raised
C16_Witness ==
    /\ pc = "raised"
    /\ \E L \in Loops :
         /\ L.fn = "send_email"
         /\ Len(CallsOf(L)) = max_retries
         /\ Len(SleepsOf(L)) = max_retries - 1
         /\ CallsOf(L)[1].out = "Exception"
         /\ CallsOf(L)[2].out = "Throttling"
         /\ CallsOf(L)[3].out = "Exception"

\* C17 as stated: a loop sleeps only after a failure whose error code is in
\* its retryable set, with attempts left; a failure without an error code (an
\* exception that is no ClientError) is raised at once.
C17_SleepOnlyOnRetryableCode ==
    \A L \in Loops :
        LET seg == Segment(L) IN
        \A i \in 1..Len(seg) :
            /\ seg[i].op = "sleep"
                 => /\ i > 1
                    /\ seg[i - 1].out \in L.retryable
                    /\ seg[i - 1].n < max_retries - 1
            /\ (seg[i].op = L.op /\ seg[i].out = "Exception")
                 => (i = Len(seg) /\ pc = "raised")

\* C17 as amended: a loop sleeps and retries exactly when attempts remain and
\* the failure is a ClientError whose code is in its retryable set or an
\* exception that is no ClientError (lines 100-104, 226-230); a ClientError
\* with any other code, and any failure of the last attempt, is raised at once
\* with no sleep and no further attempt.
C17_SleepOnRetryableOrUncoded ==
    \A L \in Loops :
        LET seg == Segment(L) IN
        \A i \in 1..Len(seg) :
            /\ seg[i].op = "sleep"
                 => /\ i > 1
                    /\ seg[i - 1].out \in L.retryable \cup {"Exception"}
                    /\ seg[i - 1].n < max_retries - 1
            /\ (seg[i].op = L.op /\ seg[i].out # "ok")
                 => IF seg[i].out \in L.retryable \cup {"Exception"}
                       /\ seg[i].n < max_retries - 1
                    THEN i < Len(seg) /\ seg[i + 1] = Sleep(L.fn, 2 ^ seg[i].n)
                    ELSE i = Len(seg) /\ LastCall = seg[i] /\ pc = "raised"

\* an exception that is no ClientError at the first attempt, slept on and retried
C17_Witness ==
    /\ Len(log) >= 4
    /\ log[2] = Call("get_cost_and_usage", 0, "Exception")
    /\ log[3] = Sleep("get_cost_data", 1)
    /\ log[4].op = "get_cost_and_usage" /\ log[4].n = 1
\* ------------------------------------------------------------------- C13
\* the lines of the text body that name a service
ShownServices == SelectSeq(fmt_out.text, LAMBDA l : l.kind = "service")

\* the position of the first line of that kind in the text body, 0 if none
FirstLine(kind) ==
    IF \E i \in DOMAIN fmt_out.text : fmt_out.text[i].kind = kind
    THEN CHOOSE i \in DOMAIN fmt_out.text :
            /\ fmt_out.text[i].kind = kind
            /\ \A j \in 1..(i - 1) : fmt_out.text[j].kind # kind
    ELSE 0

Formatted ==
    \/ pc \in {"send_email", "mark_as_sent"}
    \/ /\ pc \in {"returned", "raised"}
       /\ \E i \in 1..Len(log) : log[i].op = "send_email"

\* C14: for a response whose ResultsByTime is empty or absent, format_email
\* returns a subject, a text body and an HTML body that say there is no data;
\* the job goes on to send that email, and once SES has accepted it the job
\* records the date as sent.
C14_NoDataStillSent ==
    /\ (pc = "format_email" /\ ResultsByTime(cost_data) = <<>>)
          => /\ FormatEmail(cost_data) = NoDataEmail
             /\ ENABLED (format_email /\ pc' = "send_email"
                                      /\ email_content' = NoDataEmail)
    /\ (Formatted /\ ResultsByTime(cost_data) = <<>>)
          => /\ email_content = NoDataEmail
             /\ email_content.subject.text = "AWS Daily Cost Report - No Data"
             /\ pc = "mark_as_sent" => SendSucceeded
             /\ (pc = "returned" /\ LastCall.out = "ok")
                   => /\ LastCall.op = "put_item"
                      /\ table[LastCall.n] # NoItem
                      /\ table[LastCall.n].status = "sent"

\* a no-data email was sent and the date recorded, for an absent key
C14_Witness ==
    /\ pc = "returned"
    /\ ~already_sent
    /\ cost_data = NoCostData
    /\ email_content = NoDataEmail
    /\ SendSucceeded
    /\ LastCall = Call("put_item", yesterday, "ok")
    /\ table[yesterday] # NoItem
\* ------------------------------------------------------------------- C18
\* the cost query of the running invocation has succeeded
CostQuerySucceeded ==
    \E i \in 1..Len(log) : log[i].op = "get_cost_and_usage" /\ log[i].out = "ok"

\* C18: within one invocation the steps happen in the order dedup check,
\* cost query, format, email send, dedup record: the dedup lookup is the first
\* call and the only one of its kind, every cost query comes before every
\* email send, the email is formatted only after a successful cost query, an
\* email send is attempted only after a successful cost query and the format,
\* a dedup-record write is the last call and directly follows a successful
\* email send, and after a final failure of the cost query or of the email
\* send no dedup record is written.
C18_StepOrder ==
    /\ \A i \in 1..Len(log) : (log[i].op = "get_item") <=> (i = 1)
    /\ \A i \in 1..Len(log) :
          log[i].op = "send_email"
              => /\ \A j \in i..Len(log) : log[j].op # "get_cost_and_usage"
                 /\ \E j \in 1..(i - 1) :
                       log[j].op = "get_cost_and_usage" /\ log[j].out = "ok"
    /\ (pc = "format_email" \/ email_content # NoEmail) => CostQuerySucceeded
    /\ (pc = "send_email" \/ \E i \in 1..Len(log) : log[i].op = "send_email")
          => /\ email_content # NoEmail
             /\ email_content = FormatEmail(cost_data)
    /\ \A i \in 1..Len(log) :
          log[i].op = "put_item"
              => /\ i = Len(log)
                 /\ i > 1
                 /\ log[i - 1].op = "send_email"
                 /\ log[i - 1].out = "ok"
    /\ pc = "mark_as_sent" => SendSucceeded
    /\ (pc = "raised" /\ FinallyFailed)
          => /\ \A i \in 1..Len(log) : log[i].op # "put_item"
             /\ ~ENABLED (\E o \in StoreOutcomes : mark_as_sent(o))

\* a full run: lookup, cost query, send, record, with a retry on the way
C18_Witness ==
    /\ pc = "returned"
    /\ Len(log) = 6
    /\ log[1].op = "get_item"
    /\ log[2] = Call("get_cost_and_usage", 0, "Throttling")
    /\ log[3].op = "sleep"
    /\ log[4] = Call("get_cost_and_usage", 1, "ok")
    /\ log[5].op = "send_email" /\ log[5].out = "ok"
    /\ log[6].op = "put_item"
\* ------------------------------------------------------------------- C19
\* C19 as stated: once a record for a date exists, its sent_timestamp, status
\* and email_message_id never change.
C19_RecordNeverChanges ==
    [][\A d \in DOMAIN table : table[d] # NoItem => table'[d] = table[d]]_vars

\* the dedup lookup of the running invocation was answered for date d
LookupSucceededFor(d) ==
    /\ Len(log) >= 1
    /\ log[1] = Call("get_item", d, "ok")

\* C19, amended: a record is never deleted and its status stays "sent"; its
\* email_message_id and sent_timestamp change only by the dedup-record write
\* of an invocation whose dedup lookup was not answered for that date, and an
\* invocation whose lookup was answered for a date with a record writes no
\* record at all.
C19_RecordChangesOnlyAfterFailedLookup ==
    [][/\ \A d \in DOMAIN table :
            table[d] # NoItem
                => /\ table'[d] # NoItem
                   /\ table'[d].status = "sent"
                   /\ table'[d] # table[d]
                         => /\ pc = "mark_as_sent"
                            /\ pc' = "returned"
                            /\ ~LookupSucceededFor(d)
                            /\ table'[d].email_message_id = email_result.MessageId
       /\ (already_sent /\ pc # "already_sent_today") => table' = table]_vars

\* the record of a date was overwritten: the lookup of the second invocation
\* failed, the email went out again and the record now names the second email
C19_Witness ==
    /\ pc = "returned"
    /\ Len(log) >= 1
    /\ log[1] = Call("get_item", yesterday, "Exception")
    /\ LastCall = Call("put_item", yesterday, "ok")
    /\ delivered[yesterday] = 2
    /\ table[yesterday] # NoItem
    /\ table[yesterday].email_message_id = 2
\* ------------------------------------------------------------------- C20
\* C20 as stated: only /readiness requests that begin after the signal
\* observe app_ready = False.
C20_OnlyLaterRequestsSeeNotReady ==
    \A r \in Requests :
        (req[r].ep = "readiness" /\ ~req[r].ready_seen) => req[r].signalled

\* the next step of the handler that worker r runs
HandlerStep(r) ==
    \/ health_check_clock(r)
    \/ health_check_flag(r)
    \/ readiness_check_flag(r)
    \/ readiness_check_clock(r)
    \/ \E o \in {"ok", "Exception"} : metrics_sample(r, o)
    \/ metrics_render(r)
    \/ after_request(r)

\* what /readiness answers from the clock alone
UptimeAnswer(uptime_seconds) ==
    IF uptime_seconds < MIN_UPTIME_SECONDS
    THEN Response(503, "not_ready", "Minimum uptime not reached",
                  {<<"observed", uptime_seconds>>,
                   <<"required", MIN_UPTIME_SECONDS>>})
    ELSE Response(200, "ready", "", {<<"uptime_seconds", uptime_seconds>>})

\* C20, amended: a /readiness request that has read app_ready before the
\* signal is answered from the clock alone, as without the signal; a request
\* observes app_ready = False only when signal_handler ran before the request
\* read the flag, whenever the request began; and no request blocks or goes
\* unanswered because of the signal: every request in flight can take its
\* next step, and /readiness is answered 200 or 503.
C20_SignalSeenAtFlagRead ==
    /\ [](\A r \in Requests :
            /\ (req[r].ep = "readiness" /\ ~req[r].ready_seen) => ~app_ready
            /\ req[r].pc # "idle" => ENABLED HandlerStep(r)
            /\ Answered(r, "readiness") => req[r].resp.code \in {200, 503})
    /\ [][\A r \in Requests :
            (req[r].ep = "readiness" /\ req[r].pc = "clock"
             /\ req'[r].pc = "done")
                => req'[r].resp = UptimeAnswer(now - startup_time)]_vars

\* a request read the flag, the signal arrived, and the request was answered
\* ready all the same
C20_Witness ==
    \E r \in Requests :
        /\ Answered(r, "readiness")
        /\ ~req[r].signalled
        /\ req[r].ready_seen
        /\ ~app_ready
        /\ req[r].resp.code = 200
\* ------------------------------------------------------------------- C21
\* the date keys the running invocation used with the dedup store
StoreKeys ==
    {log[i].n : i \in {j \in 1..Len(log) : log[j].op \in {"get_item", "put_item"}}}

\* get_cost_data of the running invocation has computed the day it queries
CostDayComputed ==
    \/ pc \in {"get_cost_data", "format_email", "send_email", "mark_as_sent"}
    \/ \E i \in 1..Len(log) : log[i].op = "get_cost_and_usage"

\* C21: within one invocation the key mark_as_sent writes, the key
\* already_sent_today looked up and the day get_cost_data queried are one and
\* the same date, however the clock advances between the steps.
C21_SameReportDate ==
    /\ Cardinality(StoreKeys) <= 1
    /\ CostDayComputed => StoreKeys = {yesterday}
\* ------------------------------------------------------------------- C22
\* the result of an invocation stopped by the dedup check
DuplicatePrevented ==
    [kind |-> "return", message |-> "Cost report already sent today",
     duplicate_prevented |-> TRUE, email_message_id |-> 0, cause |-> ""]

\* C22: when every dedup lookup and write succeeds and no invocation crosses
\* midnight, the email for a date is accepted by SES at most once, whatever
\* the failures of the cost query and of the email send, the date is recorded
\* once the invocation that sent it has ended, and every invocation that ends
\* after the email for its date was sent by an earlier one returns the
\* duplicate_prevented result without calling Cost Explorer or SES.
C22_AtMostOnceWithReliableStore ==
    /\ \A d \in DOMAIN delivered : delivered[d] <= 1
    /\ store_failures = 0
    /\ \A d \in DOMAIN delivered :
          (delivered[d] = 1 /\ pc \in {"idle", "returned", "raised"})
              => table[d] # NoItem
    /\ (pc \in {"returned", "raised"} /\ ~SendSucceeded
          /\ delivered[log[1].n] = 1)
          => /\ pc = "returned"
             /\ result = DuplicatePrevented
             /\ Len(log) = 1

\* the first invocation failed at the email send, the second sent the email,
\* or the first sent it and the second was stopped by the dedup check
C22_Witness ==
    /\ invocations = 2
    /\ pc = "returned"
    /\ result = DuplicatePrevented
    /\ delivered[log[1].n] = 1
    /\ table[log[1].n].email_message_id = 1
\* ------------------------------------------------------------------- C23
\* what a /readiness request handled in the current state returns
ReadinessWouldAnswerReady ==
    app_ready /\ now - startup_time >= MIN_UPTIME_SECONDS

\* C23: the gauge demo_app_ready that /metrics writes is 1 exactly when a
\* /readiness request made in the state the gauge is written in would be
\* answered 200 ready, and 0 exactly when it would be answered 503.
C23_GaugeAgreesWithReadiness ==
    [][\A r \in Requests :
          (req[r].ep = "metrics" /\ req[r].pc = "render"
           /\ req'[r].pc = "done")
              => /\ (<<"demo_app_ready", 1>> \in req'[r].resp.values)
                        <=> ReadinessWouldAnswerReady
                 /\ (<<"demo_app_ready", 0>> \in req'[r].resp.values)
                        <=> ~ReadinessWouldAnswerReady]_vars
====
